---- MODULE Spec2Model ----
(***************************************************************************)
(* pynotion: payload builders, request assembly and the two transport      *)
(* operations (query_notion_database, update_notion_page), modelled from   *)
(* src/src/pynotion/__init__.py.                                           *)
(*                                                                         *)
(* Python values that may be of any runtime type (property names, filter   *)
(* values, property values, sort directions, ids, api keys) are records    *)
(* [t, s, n, dt]: t is the runtime type name, s the text of a str (or the  *)
(* member name of an enum member), n the number of an int (or the tenths   *)
(* of a float), dt the fields of a datetime.  Python dicts are functions   *)
(* over their string keys, Python lists are sequences.  Text that is       *)
(* always a str (header values, urls) is a TLA+ string.                    *)
(***************************************************************************)
EXTENDS Integers, Sequences, FiniteSets, TLC

VARIABLES
    NOTION_API_KEY,  \* module attribute read from the environment at import
    defaults,        \* the default {} objects of query_notion_database
    pc,              \* position of the caller: idle, or blocked in post/patch
    op,              \* operation of the current / last call
    call,            \* arguments of the current / last call
    frame,           \* locals of the operation while it is blocked
    caller,          \* filter / sorter objects held by the caller
    wire,            \* requests the transport sent during the call
    reply,           \* what the transport answered to the call's request
    log,             \* logger calls made during the call
    outcome,         \* how the call ended: returned value or raised error
    bfn,             \* builder applied last
    bargs,           \* its arguments
    bout             \* its outcome

vars == <<NOTION_API_KEY, defaults, pc, op, call, frame, caller, wire, reply,
          log, outcome, bfn, bargs, bout>>

transport_vars ==
    <<defaults, pc, op, call, frame, caller, wire, reply, log, outcome>>
builder_vars == <<bfn, bargs, bout>>

(***************************************************************************)
(* Bounds of the model.                                                    *)
(***************************************************************************)
MaxProps == 2

(***************************************************************************)
(* Program constants.                                                      *)
(***************************************************************************)
NOTION_VERSION == "2022-06-28"
NOTION_API_BASE_URL == "https://api.notion.com"
NOTION_API_VERSION == "v1"

(***************************************************************************)
(* Python values.                                                          *)
(***************************************************************************)
NoDT == [year |-> 0, month |-> 0, day |-> 0, hour |-> 0, minute |-> 0]

PyNone == [t |-> "NoneType", s |-> "", n |-> 0, dt |-> NoDT]
PyStr(x) == [t |-> "str", s |-> x, n |-> 0, dt |-> NoDT]
PyInt(i) == [t |-> "int", s |-> "", n |-> i, dt |-> NoDT]
PyFloat(tenths) == [t |-> "float", s |-> "", n |-> tenths, dt |-> NoDT]
PyDatetime(y, mo, d, h, mi) ==
    [t |-> "datetime", s |-> "", n |-> 0,
     dt |-> [year |-> y, month |-> mo, day |-> d, hour |-> h, minute |-> mi]]

\* An argument the caller left out, so that the parameter's default applies.
Omitted == [t |-> "<omitted>", s |-> "", n |-> 0, dt |-> NoDT]

\* class SortDirection(Enum): ascending = ("ascending",); descending = "descending"
SortDirection_ascending ==
    [t |-> "SortDirection", s |-> "ascending", n |-> 0, dt |-> NoDT]
SortDirection_descending ==
    [t |-> "SortDirection", s |-> "descending", n |-> 0, dt |-> NoDT]
SortDirection == {SortDirection_ascending, SortDirection_descending}

\* str() of the value each member was declared with.
SortDirectionValue(member) ==
    IF member = SortDirection_ascending THEN "('ascending',)" ELSE "descending"

isinstance(v, cls) == v.t = cls

\* Python truth value testing (bool(v)), as used by `not v` and `v or w`.
Truthy(v) ==
    CASE v.t = "NoneType" -> FALSE
      [] v.t = "str" -> v.s # ""
      [] v.t = "int" -> v.n # 0
      [] v.t = "float" -> v.n # 0
      [] OTHER -> TRUE

PyOr(a, b) == IF Truthy(a) THEN a ELSE b

(***************************************************************************)
(* Python dicts.                                                           *)
(***************************************************************************)
EmptyDict == <<>>

\* d[k] = v
DictSet(d, k, v) == [q \in DOMAIN d \cup {k} |-> IF q = k THEN v ELSE d[q]]

\* {key: value for key, value in d.items() if key != k}
DictWithout(d, k) == [q \in DOMAIN d \ {k} |-> d[q]]

(***************************************************************************)
(* Logger calls: the function that logs, the point it logs at, and the     *)
(* header mapping among the call's arguments, if any.                      *)
(***************************************************************************)
LogCall(fn, at) == [fn |-> fn, at |-> at, has_headers |-> FALSE, headers |-> EmptyDict]
LogHeaders(fn, at, h) == [fn |-> fn, at |-> at, has_headers |-> TRUE, headers |-> h]

(***************************************************************************)
(* Outcome of a function: a returned value or a raised error, and the      *)
(* logger calls made on the way.                                           *)
(***************************************************************************)
Return(value, lg) == [kind |-> "return", exc |-> "", ret |-> value, log |-> lg]
Raise(exc, lg) == [kind |-> "raise", exc |-> exc, ret |-> EmptyDict, log |-> lg]
NoOutcome == [kind |-> "none", exc |-> "", ret |-> EmptyDict, log |-> <<>>]

(***************************************************************************)
(* SortDirection.__str__: Enum.__str__ gives "SortDirection.<name>", whose *)
(* dot-separated segments are the class name and the member name; the      *)
(* method splits on "." and keeps the last segment.                        *)
(***************************************************************************)
EnumStrSegments(member) == <<member.t, member.s>>

\* Variant rendering the member's value instead of its name.
SortDirection_str_value(member) == SortDirectionValue(member)
SortDirection_str(member) ==
    LET parts == EnumStrSegments(member) IN parts[Len(parts)]

(***************************************************************************)
(* build_single_sorter                                                     *)
(***************************************************************************)
\* isinstance(direction, SortDirection)
DirectionIsValid(direction) == isinstance(direction, "SortDirection")

\* Variant with the two validations in the other order.
build_single_sorter_name_first(property_name, direction_arg) ==
    LET direction == IF direction_arg = Omitted
                     THEN SortDirection_ascending ELSE direction_arg
        lg == <<LogCall("build_single_sorter", "Starting")>>
    IN  IF ~Truthy(property_name) THEN Raise("ValueError", lg)
        ELSE IF ~DirectionIsValid(direction) THEN Raise("TypeError", lg)
        ELSE Return(DictSet(EmptyDict, "sorts",
                       <<[property |-> property_name,
                          direction |-> PyStr(SortDirection_str(direction))]>>),
                    Append(lg, LogCall("build_single_sorter", "Ending")))

build_single_sorter(property_name, direction_arg) ==
    LET direction == IF direction_arg = Omitted
                     THEN SortDirection_ascending ELSE direction_arg
        lg == <<LogCall("build_single_sorter", "Starting")>>
    IN  IF ~DirectionIsValid(direction) THEN Raise("TypeError", lg)
        ELSE IF ~Truthy(property_name) THEN Raise("ValueError", lg)
        ELSE LET direction2 == PyOr(direction, SortDirection_ascending)
                 sorter0 == DictSet(EmptyDict, "sorts", <<>>)
                 entry == [property |-> property_name,
                           direction |-> PyStr(SortDirection_str(direction2))]
                 sorter1 == DictSet(sorter0, "sorts",
                                    Append(sorter0["sorts"], entry))
             IN  Return(sorter1,
                        Append(lg, LogCall("build_single_sorter", "Ending")))

(***************************************************************************)
(* build_equal_filter                                                      *)
(***************************************************************************)
Pad2(n) == IF n < 10 THEN "0" \o ToString(n) ELSE ToString(n)
Pad4(n) ==
    CASE n < 10 -> "000" \o ToString(n)
      [] n >= 10 /\ n < 100 -> "00" \o ToString(n)
      [] n >= 100 /\ n < 1000 -> "0" \o ToString(n)
      [] OTHER -> ToString(n)

\* datetime.date(): the calendar date, the time of day dropped.
datetime_date(dt) == [year |-> dt.year, month |-> dt.month, day |-> dt.day]
\* date.isoformat(): YYYY-MM-DD
date_isoformat(d) == Pad4(d.year) \o "-" \o Pad2(d.month) \o "-" \o Pad2(d.day)
\* datetime.isoformat(): YYYY-MM-DDTHH:MM:SS
datetime_isoformat(dt) ==
    date_isoformat(datetime_date(dt)) \o "T" \o Pad2(dt.hour) \o ":"
        \o Pad2(dt.minute) \o ":00"

\* Variant keeping the time of day: value.isoformat()
FilterDateValue_full(value) == PyStr(datetime_isoformat(value.dt))
\* value.date().isoformat()
FilterDateValue(value) == PyStr(date_isoformat(datetime_date(value.dt)))

\* Variant testing only for None and "": value is None or value == ""
ValueIsEmpty_none_or_blank(value) == value = PyNone \/ value = PyStr("")
\* not value
ValueIsEmpty(value) == ~Truthy(value)

build_equal_filter(property_name, value) ==
    LET lg == <<LogCall("build_equal_filter", "Starting")>>
    IN  IF ~Truthy(property_name) THEN Raise("ValueError", lg)
        ELSE IF ValueIsEmpty(value) THEN Raise("ValueError", lg)
        ELSE LET f0 == DictSet(EmptyDict, "filter", EmptyDict)
                 f1 == DictSet(f0, "filter",
                               DictSet(f0["filter"], "property", property_name))
                 f2 == IF isinstance(value, "datetime")
                       THEN DictSet(f1, "filter",
                                DictSet(f1["filter"], "date",
                                    DictSet(EmptyDict, "equals",
                                            FilterDateValue(value))))
                       ELSE f1
                 f3 == IF isinstance(value, "str")
                       THEN DictSet(f2, "filter",
                                DictSet(f2["filter"], "rich_text",
                                    DictSet(EmptyDict, "equals", value)))
                       ELSE f2
             IN  Return(f3, Append(lg, LogCall("build_equal_filter", "Ending")))

(***************************************************************************)
(* build_update_properties                                                 *)
(***************************************************************************)
NotionPageProperty(name, value) == [name |-> name, value |-> value]

\* Variant keeping the first value of a name: setdefault(name, value)
RECURSIVE AssignProperties_setdefault(_, _)
AssignProperties_setdefault(properties, i) ==
    IF i = 0 THEN EmptyDict
    ELSE LET m == AssignProperties_setdefault(properties, i - 1)
         IN  IF properties[i].name \in DOMAIN m THEN m
             ELSE DictSet(m, properties[i].name, properties[i].value)

\* The loop over properties[1..i], each entry assigned into the mapping.
RECURSIVE AssignProperties(_, _)
AssignProperties(properties, i) ==
    IF i = 0 THEN EmptyDict
    ELSE DictSet(AssignProperties(properties, i - 1),
                 properties[i].name, properties[i].value)

build_update_properties(properties) ==
    LET lg == <<LogCall("build_update_properties", "Starting")>>
    IN  IF Len(properties) = 0 THEN Raise("ValueError", lg)
        ELSE LET ret0 == DictSet(EmptyDict, "properties", EmptyDict)
                 ret1 == DictSet(ret0, "properties",
                                 AssignProperties(properties, Len(properties)))
             IN  Return(ret1,
                        Append(lg, LogCall("build_update_properties", "Ending")))

(***************************************************************************)
(* Request assembly: _log_headers, build_headers, build_url                *)
(***************************************************************************)
\* repr of a float given in tenths: 33 is 3.3, 0 is 0.0
float_repr(tenths) ==
    LET a == IF tenths < 0 THEN 0 - tenths ELSE tenths
    IN  (IF tenths < 0 THEN "-" ELSE "")
            \o ToString(a \div 10) \o "." \o ToString(a % 10)

\* str of a datetime: YYYY-MM-DD HH:MM:SS
datetime_str(dt) ==
    date_isoformat(datetime_date(dt)) \o " " \o Pad2(dt.hour) \o ":"
        \o Pad2(dt.minute) \o ":00"

\* Text of a value inside an f-string: f"{v}".
PyFormat(v) ==
    CASE v.t = "NoneType" -> "None"
      [] v.t = "str" -> v.s
      [] v.t = "int" -> ToString(v.n)
      [] v.t = "float" -> float_repr(v.n)
      [] v.t = "datetime" -> datetime_str(v.dt)
      [] v.t = "SortDirection" -> SortDirection_str(v)

\* Variant that logs the mapping as it is.
log_headers_unredacted(headers) == headers
\* _log_headers
log_headers(headers) == DictWithout(headers, "Authorization")

\* api_key or NOTION_API_KEY
EffectiveApiKey(api_key) == PyOr(api_key, NOTION_API_KEY)

build_headers(api_key) ==
    LET lg == <<LogCall("build_headers", "Starting")>>
        h0 == DictSet(EmptyDict, "Authorization",
                      "Bearer " \o PyFormat(EffectiveApiKey(api_key)))
        h1 == DictSet(h0, "Notion-Version", NOTION_VERSION)
        headers == DictSet(h1, "Content-Type", "application/json")
    IN  Return(headers,
               Append(lg, LogHeaders("build_headers", "Ending",
                                     log_headers(headers))))

\* "/".join([NOTION_API_BASE_URL, NOTION_API_VERSION, route])
build_url(route) ==
    Return(NOTION_API_BASE_URL \o "/" \o NOTION_API_VERSION \o "/" \o route,
           <<LogCall("build_url", "Starting"), LogCall("build_url", "Ending")>>)

(***************************************************************************)
(* filter | sorter: the union, the right operand's entry kept on a shared  *)
(* key; `left` is the left operand object after the operation.             *)
(***************************************************************************)
DictUnion(a, b) ==
    [k \in DOMAIN a \cup DOMAIN b |-> IF k \in DOMAIN b THEN b[k] ELSE a[k]]

\* Variant merging in place: filter |= sorter
dict_ior(a, b) == [result |-> DictUnion(a, b), left |-> DictUnion(a, b)]
dict_or(a, b) == [result |-> DictUnion(a, b), left |-> a]

(***************************************************************************)
(* The transport (requests.post / requests.patch): a call either raises a  *)
(* network failure or returns a response.  json_ok tells whether the       *)
(* response's content decodes as JSON.                                     *)
(***************************************************************************)
Response(status_code, json_ok) == [status_code |-> status_code, json_ok |-> json_ok]
NoResponse == Response(0, FALSE)

Responses ==
    {Response(200, TRUE), Response(200, FALSE), Response(204, FALSE),
     Response(299, TRUE), Response(304, FALSE), Response(399, TRUE),
     Response(400, TRUE), Response(404, TRUE), Response(429, FALSE),
     Response(500, TRUE), Response(599, FALSE)}

NoReply == [raises |-> "", res |-> NoResponse]

TransportResults ==
    {[raises |-> e, res |-> NoResponse] : e \in {"ConnectionError", "Timeout"}}
    \cup {[raises |-> "", res |-> r] : r \in Responses}

\* Response.raise_for_status(): HTTPError for a client or server error status.
raise_for_status(res) == res.status_code >= 400 /\ res.status_code < 600

\* Response.json() raises when the content does not decode.
json_raises(res) == ~res.json_ok

\* json.dumps inside requests.post / requests.patch (json=payload): None,
\* str, int and float values encode; a datetime or an enum member raises
\* TypeError, before anything is sent.
JsonValue(v) == v.t \in {"NoneType", "str", "int", "float"}

\* A mapping (or a list entry) whose values are plain values.
JsonFlat(d) == \A k \in DOMAIN d : JsonValue(d[k])

\* The body of update_notion_page: {"properties": {name: value, ...}}
JsonSerializableUpdate(payload) ==
    \A k \in DOMAIN payload : JsonFlat(payload[k])

\* The body of query_notion_database: "filter" holds the property name and
\* the kind mappings, "sorts" a list of entries.
JsonSerializableQuery(payload) ==
    \A k \in DOMAIN payload :
        IF k = "sorts"
        THEN \A i \in 1..Len(payload[k]) : JsonFlat(payload[k][i])
        ELSE \A f \in DOMAIN payload[k] :
                IF f = "property" THEN JsonValue(payload[k][f])
                ELSE JsonFlat(payload[k][f])

Request(method, url, json, headers) ==
    [method |-> method, url |-> url, json |-> json, headers |-> headers]

OpReturn(res) == [kind |-> "return", exc |-> "", status |-> 0, res |-> res]
OpRaise(exc) == [kind |-> "raise", exc |-> exc, status |-> 0, res |-> NoResponse]
\* HTTPError(..., response=self): the error carries the response's status.
OpRaiseHTTPError(res) ==
    [kind |-> "raise", exc |-> "HTTPError", status |-> res.status_code,
     res |-> NoResponse]
OpNone == [kind |-> "none", exc |-> "", status |-> 0, res |-> NoResponse]

NoFrame == [url |-> "", payload |-> EmptyDict, headers |-> EmptyDict]
NoCaller == [filter |-> EmptyDict, sorter |-> EmptyDict]

(***************************************************************************)
(* Inputs.                                                                 *)
(***************************************************************************)
EnvKeys == {PyNone, PyStr("env_key")}
ApiKeys == {PyNone, PyStr(""), PyStr("test_key")}
DatabaseIds == {PyStr(""), PyNone, PyStr("test_key")}
PageIds == {PyStr("f7b7c638"), PyStr("")}

PropertyNames == {PyNone, PyStr(""), PyInt(0), PyStr("Name"), PyStr("Date")}
Datetimes ==
    {PyDatetime(2023, 1, 5, 0, 0), PyDatetime(2023, 1, 5, 13, 45),
     PyDatetime(2023, 12, 31, 23, 59), PyDatetime(987, 10, 9, 7, 5)}
FilterValues ==
    {PyNone, PyStr(""), PyInt(0), PyFloat(0), PyStr("teste"), PyStr("0"),
     PyInt(5), PyFloat(33)} \cup Datetimes
Directions ==
    SortDirection \cup {Omitted, PyStr(""), PyNone, PyInt(1), PyFloat(33)}

PageProperties ==
    {NotionPageProperty("Streak", PyInt(1)),
     NotionPageProperty("Streak", PyStr("value")),
     NotionPageProperty("name", PyStr("value")),
     NotionPageProperty("Date", PyDatetime(2023, 1, 5, 13, 45))}

RECURSIVE SeqsUpTo(_, _)
SeqsUpTo(S, n) ==
    IF n = 0 THEN {<<>>}
    ELSE LET shorter == SeqsUpTo(S, n - 1)
         IN  shorter \cup {Append(q, x) : q \in shorter, x \in S}

PropertyLists == SeqsUpTo(PageProperties, MaxProps)

UpdateProperties ==
    {NotionPageProperty("name", PyStr("value")),
     NotionPageProperty("Date", PyDatetime(2023, 1, 5, 13, 45))}
UpdatePropertyLists == SeqsUpTo(UpdateProperties, MaxProps)

Given(obj) == [given |-> TRUE, obj |-> obj]
NotGiven == [given |-> FALSE, obj |-> EmptyDict]

FilterObjects ==
    {build_equal_filter(PyStr("Habit"), PyStr("teste")).ret,
     build_single_sorter(PyStr("Name"), SortDirection_ascending).ret}
SorterObjects ==
    {build_single_sorter(PyStr("Date"), SortDirection_descending).ret,
     build_equal_filter(PyStr("Date"), PyDatetime(2023, 1, 5, 0, 0)).ret}
FilterArgs == {NotGiven} \cup {Given(f) : f \in FilterObjects}
SorterArgs == {NotGiven} \cup {Given(s) : s \in SorterObjects}

(***************************************************************************)
(* Initial state: the module has been imported.                            *)
(***************************************************************************)
Init ==
    /\ NOTION_API_KEY \in EnvKeys
    /\ defaults = [filter |-> EmptyDict, sorter |-> EmptyDict]
    /\ pc = "idle"
    /\ op = "none"
    /\ call = <<>>
    /\ frame = NoFrame
    /\ caller = NoCaller
    /\ wire = <<>>
    /\ reply = NoReply
    /\ log = <<>>
    /\ outcome = OpNone
    /\ bfn = "none"
    /\ bargs = <<>>
    /\ bout = NoOutcome

(***************************************************************************)
(* query_notion_database                                                   *)
(***************************************************************************)
\* not database_id
DatabaseIdIsEmpty(database_id) == ~Truthy(database_id)

\* From the call up to requests.post(...) having sent the request, or
\* having failed to encode its body.
QueryCall ==
    /\ pc = "idle"
    /\ \E database_id \in DatabaseIds, filter_arg \in FilterArgs,
          sorter_arg \in SorterArgs, api_key \in ApiKeys :
        LET filter == IF filter_arg.given THEN filter_arg.obj ELSE defaults.filter
            sorter == IF sorter_arg.given THEN sorter_arg.obj ELSE defaults.sorter
            lg == <<LogCall("query_notion_database", "Starting")>>
            h == build_headers(api_key)
            merged == dict_or(filter, sorter)
            u == build_url("databases/" \o PyFormat(database_id) \o "/query")
        IN  /\ op' = "query"
            /\ call' = [database_id |-> database_id, filter |-> filter_arg,
                        sorter |-> sorter_arg, api_key |-> api_key]
            /\ IF DatabaseIdIsEmpty(database_id)
               THEN /\ outcome' = OpRaise("ValueError")
                    /\ pc' = "idle"
                    /\ frame' = NoFrame
                    /\ wire' = <<>>
                    /\ log' = lg
                    /\ caller' = [filter |-> filter_arg.obj, sorter |-> sorter_arg.obj]
                    /\ UNCHANGED defaults
               ELSE /\ IF JsonSerializableQuery(merged.result)
                       THEN /\ outcome' = OpNone
                            /\ pc' = "post"
                            /\ frame' = [url |-> u.ret,
                                         payload |-> merged.result,
                                         headers |-> h.ret]
                            /\ wire' = <<Request("POST", u.ret,
                                                 merged.result, h.ret)>>
                       ELSE /\ outcome' = OpRaise("TypeError")
                            /\ pc' = "idle"
                            /\ frame' = NoFrame
                            /\ wire' = <<>>
                    /\ log' = lg \o h.log \o u.log
                              \o <<LogHeaders("query_notion_database", "Calling",
                                              log_headers(h.ret))>>
                    /\ caller' = [filter |-> IF filter_arg.given THEN merged.left
                                             ELSE EmptyDict,
                                  sorter |-> sorter_arg.obj]
                    /\ defaults' = [defaults EXCEPT !.filter =
                                       IF filter_arg.given THEN @ ELSE merged.left]
    /\ reply' = NoReply
    /\ UNCHANGED <<NOTION_API_KEY, builder_vars>>

\* requests.post(...) ends; the rest of the function runs.
QueryComplete ==
    /\ pc = "post"
    /\ \E t \in TransportResults :
        /\ reply' = t
        /\ IF t.raises # ""
           THEN /\ outcome' = OpRaise(t.raises)
                /\ UNCHANGED log
           ELSE LET lg == Append(log, LogCall("query_notion_database", "Status code"))
                IN  IF raise_for_status(t.res)
                    THEN /\ outcome' = OpRaiseHTTPError(t.res)
                         /\ log' = lg
                    ELSE IF json_raises(t.res)
                    THEN /\ outcome' = OpRaise("JSONDecodeError")
                         /\ log' = lg
                    ELSE /\ outcome' = OpReturn(t.res)
                         /\ log' = Append(lg, LogCall("query_notion_database", "Ending"))
    /\ pc' = "idle"
    /\ frame' = NoFrame
    /\ UNCHANGED <<NOTION_API_KEY, defaults, op, call, caller, wire, builder_vars>>

(***************************************************************************)
(* update_notion_page                                                      *)
(***************************************************************************)
\* From the call up to requests.patch(...) having sent the request, or
\* having failed to encode its body.
UpdateCall ==
    /\ pc = "idle"
    /\ \E page_id \in PageIds, properties \in UpdatePropertyLists,
          api_key \in ApiKeys :
        LET lg == <<LogCall("update_notion_page", "Starting")>>
            u == build_url("pages/" \o PyFormat(page_id))
            p == build_update_properties(properties)
            h == build_headers(api_key)
        IN  /\ op' = "update"
            /\ call' = [page_id |-> page_id, properties |-> properties,
                        api_key |-> api_key]
            /\ IF p.kind = "raise"
               THEN /\ outcome' = OpRaise(p.exc)
                    /\ pc' = "idle"
                    /\ frame' = NoFrame
                    /\ wire' = <<>>
                    /\ log' = lg \o u.log \o p.log
               ELSE /\ IF JsonSerializableUpdate(p.ret)
                       THEN /\ outcome' = OpNone
                            /\ pc' = "patch"
                            /\ frame' = [url |-> u.ret, payload |-> p.ret,
                                         headers |-> h.ret]
                            /\ wire' = <<Request("PATCH", u.ret, p.ret, h.ret)>>
                       ELSE /\ outcome' = OpRaise("TypeError")
                            /\ pc' = "idle"
                            /\ frame' = NoFrame
                            /\ wire' = <<>>
                    /\ log' = lg \o u.log \o p.log \o h.log
                              \o <<LogHeaders("update_notion_page", "Calling",
                                              log_headers(h.ret))>>
    /\ caller' = NoCaller
    /\ reply' = NoReply
    /\ UNCHANGED <<NOTION_API_KEY, defaults, builder_vars>>

\* requests.patch(...) ends; the rest of the function runs.
UpdateComplete ==
    /\ pc = "patch"
    /\ \E t \in TransportResults :
        /\ reply' = t
        /\ IF t.raises # ""
           THEN /\ outcome' = OpRaise(t.raises)
                /\ UNCHANGED log
           ELSE LET lg == Append(log, LogCall("update_notion_page", "Status code"))
                IN  IF raise_for_status(t.res)
                    THEN /\ outcome' = OpRaiseHTTPError(t.res)
                         /\ log' = lg
                    ELSE /\ outcome' = OpReturn(t.res)
                         /\ log' = Append(lg, LogCall("update_notion_page", "Ending"))
    /\ pc' = "idle"
    /\ frame' = NoFrame
    /\ UNCHANGED <<NOTION_API_KEY, defaults, op, call, caller, wire, builder_vars>>

(***************************************************************************)
(* build_headers called on its own.                                        *)
(***************************************************************************)
HeadersCall ==
    /\ pc = "idle"
    /\ \E api_key \in ApiKeys :
        LET h == build_headers(api_key)
        IN  /\ op' = "build_headers"
            /\ call' = [api_key |-> api_key]
            /\ outcome' = OpReturn(h.ret)
            /\ log' = h.log
    /\ wire' = <<>>
    /\ caller' = NoCaller
    /\ reply' = NoReply
    /\ UNCHANGED <<NOTION_API_KEY, defaults, pc, frame, builder_vars>>

Next == QueryCall \/ QueryComplete \/ UpdateCall \/ UpdateComplete \/ HeadersCall

Spec == Init /\ [][Next]_vars

(***************************************************************************)
(* The builders applied to inputs.                                         *)
(***************************************************************************)
SorterApply ==
    /\ \E property_name \in PropertyNames, direction \in Directions :
        /\ bfn' = "build_single_sorter"
        /\ bargs' = [property_name |-> property_name, direction |-> direction]
        /\ bout' = build_single_sorter(property_name, direction)
    /\ UNCHANGED <<NOTION_API_KEY, transport_vars>>

FilterApply ==
    /\ \E property_name \in PropertyNames, value \in FilterValues :
        /\ bfn' = "build_equal_filter"
        /\ bargs' = [property_name |-> property_name, value |-> value]
        /\ bout' = build_equal_filter(property_name, value)
    /\ UNCHANGED <<NOTION_API_KEY, transport_vars>>

UpdatePropertiesApply ==
    /\ \E properties \in PropertyLists :
        /\ bfn' = "build_update_properties"
        /\ bargs' = [properties |-> properties]
        /\ bout' = build_update_properties(properties)
    /\ UNCHANGED <<NOTION_API_KEY, transport_vars>>

BuilderNext == SorterApply \/ FilterApply \/ UpdatePropertiesApply

BuilderSpec == Init /\ [][BuilderNext]_vars

(***************************************************************************)
(* Properties of the builders (checked under BuilderSpec).                 *)
(***************************************************************************)
EmptyNames == {PyStr(""), PyNone, PyInt(0)}
NonEmptyNames == {PyStr("Name"), PyStr("Date")}
EmptyValues == {PyStr(""), PyInt(0), PyFloat(0), PyNone}

RaisedB(exc) == bout.kind = "raise" /\ bout.exc = exc /\ bout.ret = EmptyDict

\* The ISO calendar date of each date-time of the inputs, written out.
ExpectedIsoDate(value) ==
    CASE value.dt.year = 2023 /\ value.dt.month = 1 /\ value.dt.day = 5
            -> "2023-01-05"
      [] value.dt.year = 2023 /\ value.dt.month = 12 /\ value.dt.day = 31
            -> "2023-12-31"
      [] value.dt.year = 987 /\ value.dt.month = 10 /\ value.dt.day = 9
            -> "0987-10-09"

\* C3: for a non-empty property_name, build_equal_filter returns, for a
\* date-time value, {"filter": {"property": name, "date": {"equals": d}}}
\* with d the ISO calendar date of the value whatever its time of day, and
\* for a non-empty string value {"filter": {"property": name, "rich_text":
\* {"equals": value}}} with the string unchanged; the fragment holds exactly
\* one kind key in both cases.
C3_EqualFilterByType ==
    (bfn = "build_equal_filter" /\ bargs.property_name \in NonEmptyNames) =>
        /\ isinstance(bargs.value, "datetime") =>
              /\ bout.kind = "return"
              /\ bout.ret =
                    [filter |-> [property |-> bargs.property_name,
                                 date |-> [equals |->
                                    PyStr(ExpectedIsoDate(bargs.value))]]]
              /\ Cardinality(DOMAIN bout.ret["filter"] \ {"property"}) = 1
        /\ (isinstance(bargs.value, "str") /\ bargs.value.s # "") =>
              /\ bout.kind = "return"
              /\ bout.ret =
                    [filter |-> [property |-> bargs.property_name,
                                 rich_text |-> [equals |-> bargs.value]]]
              /\ Cardinality(DOMAIN bout.ret["filter"] \ {"property"}) = 1

C3_Witness ==
    /\ bfn = "build_equal_filter"
    /\ bargs.property_name = PyStr("Date")
    /\ bargs.value = PyDatetime(2023, 1, 5, 13, 45)
    /\ bout.kind = "return"
    /\ bout.ret["filter"]["date"]["equals"] = PyStr("2023-01-05")

\* C4: build_equal_filter raises ValueError and returns no fragment whenever
\* property_name is empty ("", None or 0) or value is empty ("", numeric
\* zero or None), whatever the other argument is; a numeric zero is rejected
\* like an absent value.
C4_EqualFilterRejectsEmpty ==
    (bfn = "build_equal_filter"
        /\ (bargs.property_name \in EmptyNames \/ bargs.value \in EmptyValues))
    => RaisedB("ValueError")

C4_Witness ==
    /\ bfn = "build_equal_filter"
    /\ bargs.property_name = PyStr("Name")
    /\ bargs.value = PyInt(0)
    /\ RaisedB("ValueError")

\* C5: build_single_sorter checks the direction first: a direction that is
\* not a SortDirection member raises TypeError whatever property_name is,
\* also an empty one; ValueError is raised only when the direction is a
\* member (or left out) and property_name is empty.
C5_SorterValidationOrder ==
    bfn = "build_single_sorter" =>
        LET member == bargs.direction \in SortDirection \cup {Omitted}
        IN  /\ ~member => RaisedB("TypeError")
            /\ (member /\ bargs.property_name \in EmptyNames)
                  => RaisedB("ValueError")
            /\ (bout.kind = "raise" /\ bout.exc = "ValueError")
                  => (member /\ bargs.property_name \in EmptyNames)

C5_Witness ==
    /\ bfn = "build_single_sorter"
    /\ bargs.direction = PyNone
    /\ bargs.property_name = PyStr("")
    /\ RaisedB("TypeError")

\* C6: for a non-empty property_name and a SortDirection member (ascending
\* when the direction is left out), build_single_sorter returns
\* {"sorts": [{"property": property_name, "direction": s}]} with one entry,
\* s being "ascending" or "descending", the member's name.
C6_SorterFragment ==
    (bfn = "build_single_sorter"
        /\ bargs.property_name \in NonEmptyNames
        /\ bargs.direction \in SortDirection \cup {Omitted})
    => /\ bout.kind = "return"
       /\ bout.ret =
             [sorts |->
                <<[property |-> bargs.property_name,
                   direction |->
                      IF bargs.direction = SortDirection_descending
                      THEN PyStr("descending") ELSE PyStr("ascending")]>>]

C6_Witness ==
    /\ bfn = "build_single_sorter"
    /\ bargs.property_name = PyStr("Name")
    /\ bargs.direction = SortDirection_ascending
    /\ bout.kind = "return"
    /\ Len(bout.ret["sorts"]) = 1
    /\ bout.ret["sorts"][1].direction = PyStr("ascending")

\* C7: build_update_properties raises ValueError for an empty sequence; for
\* a non-empty one it returns {"properties": M}, the keys of M being the
\* names that occur in the sequence and M[name] the value of the last entry
\* carrying that name.
C7_UpdatePropertiesLastWins ==
    bfn = "build_update_properties" =>
        LET ps == bargs.properties
        IN  IF Len(ps) = 0 THEN RaisedB("ValueError")
            ELSE /\ bout.kind = "return"
                 /\ DOMAIN bout.ret = {"properties"}
                 /\ LET M == bout.ret["properties"]
                    IN  /\ DOMAIN M = {ps[i].name : i \in 1..Len(ps)}
                        /\ \A i \in 1..Len(ps) :
                              (\A j \in (i + 1)..Len(ps) : ps[j].name # ps[i].name)
                                  => M[ps[i].name] = ps[i].value

C7_Witness ==
    /\ bfn = "build_update_properties"
    /\ Len(bargs.properties) = 2
    /\ bargs.properties[1] = NotionPageProperty("Streak", PyInt(1))
    /\ bargs.properties[2] = NotionPageProperty("Streak", PyStr("value"))
    /\ bout.kind = "return"
    /\ bout.ret["properties"]["Streak"] = PyStr("value")

WellFormedSorter(f) ==
    /\ DOMAIN f = {"sorts"}
    /\ Len(f["sorts"]) = 1
    /\ DOMAIN f["sorts"][1] = {"property", "direction"}

WellFormedFilter(f) ==
    /\ DOMAIN f = {"filter"}
    /\ \E kind \in {"date", "rich_text"} :
          /\ DOMAIN f["filter"] = {"property", kind}
          /\ DOMAIN f["filter"][kind] = {"equals"}

WellFormedUpdate(f) == DOMAIN f = {"properties"}

\* C9: every builder, for every input, either raises or returns a
\* well-formed fragment of its documented shape; a fragment returned by
\* build_equal_filter is {"filter": {"property": name, kind: {"equals": v}}}
\* with kind "date" or "rich_text", for a non-empty value of any type.
C9_BuildersWellFormed ==
    /\ bfn # "none" => bout.kind \in {"raise", "return"}
    /\ (bfn = "build_single_sorter" /\ bout.kind = "return")
          => WellFormedSorter(bout.ret)
    /\ (bfn = "build_equal_filter" /\ bout.kind = "return")
          => WellFormedFilter(bout.ret)
    /\ (bfn = "build_update_properties" /\ bout.kind = "return")
          => WellFormedUpdate(bout.ret)

(***************************************************************************)
(* Properties of the transport operations (checked under Spec).            *)
(***************************************************************************)
RaisedOp(exc) == outcome.kind = "raise" /\ outcome.exc = exc

\* C1: the number of requests a call of query_notion_database or
\* update_notion_page issues depends on the local validation alone: when it
\* fails (database_id "" or None; properties an empty sequence) the call
\* raises ValueError and issues no request; otherwise exactly one request is
\* issued (POST for the query, PATCH for the update), and no second one
\* whatever the transport answers.
C1_RequestCount ==
    /\ Len(wire) <= 1
    /\ op = "query" =>
          IF call.database_id \in {PyStr(""), PyNone}
          THEN pc = "idle" /\ RaisedOp("ValueError") /\ wire = <<>>
          ELSE Len(wire) = 1 /\ wire[1].method = "POST"
    /\ op = "update" =>
          IF call.properties = <<>>
          THEN pc = "idle" /\ RaisedOp("ValueError") /\ wire = <<>>
          ELSE Len(wire) = 1 /\ wire[1].method = "PATCH"

\* C2: once validation has passed, the transport's answer fixes the outcome
\* of both operations: a network failure reaches the caller as it is; a
\* response with a 2xx status is returned as it is; a response with any
\* other status raises an HTTP-status error carrying that status, and no
\* response is returned.
C2_OutcomeFixedByTransport ==
    (op \in {"query", "update"} /\ pc = "idle" /\ wire # <<>>) =>
        IF reply.raises # ""
        THEN RaisedOp(reply.raises)
        ELSE IF reply.res.status_code >= 200 /\ reply.res.status_code < 300
        THEN outcome.kind = "return" /\ outcome.res = reply.res
        ELSE /\ RaisedOp("HTTPError")
             /\ outcome.status = reply.res.status_code
             /\ outcome.res = NoResponse

ExpectedHeaders(k) ==
    [h \in {"Authorization", "Notion-Version", "Content-Type"} |->
        CASE h = "Authorization" ->
                IF k = PyNone THEN "Bearer None" ELSE "Bearer " \o k.s
          [] h = "Notion-Version" -> "2022-06-28"
          [] h = "Content-Type" -> "application/json"]

\* The header mappings the call produced: build_headers' return value, and
\* the headers of the requests handed to the transport.
HeadersProduced ==
    (IF op = "build_headers" /\ outcome.kind = "return"
     THEN {outcome.res} ELSE {})
    \cup {wire[i].headers : i \in 1..Len(wire)}

LoggedHeaders == {log[i].headers : i \in {j \in 1..Len(log) : log[j].has_headers}}

\* C8 as stated: the header mapping has exactly the three keys, with
\* Authorization "Bearer <k>", k being api_key when one is supplied and the
\* configured key otherwise; no header representation passed to a log call
\* holds the Authorization entry or the key value.
C8_HeadersAsStated ==
    op \in {"build_headers", "query", "update"} =>
        LET k == IF call.api_key # PyNone THEN call.api_key ELSE NOTION_API_KEY
        IN  /\ \A h \in HeadersProduced : h = ExpectedHeaders(k)
            /\ \A l \in LoggedHeaders :
                  /\ "Authorization" \notin DOMAIN l
                  /\ \A key \in DOMAIN l : l[key] # ExpectedHeaders(k)["Authorization"]

\* C8, amended: the header mapping has exactly the three keys, with
\* Authorization "Bearer <k>", k being api_key when a non-empty api_key is
\* supplied and the configured key otherwise (an api_key of "" falls back to
\* the configured key like one left out); every header representation passed
\* to a log call is the mapping without its Authorization entry, so it holds
\* neither that entry nor the bearer token.
C8_HeadersAndRedaction ==
    op \in {"build_headers", "query", "update"} =>
        LET k == IF call.api_key \in {PyNone, PyStr("")}
                 THEN NOTION_API_KEY ELSE call.api_key
        IN  /\ \A h \in HeadersProduced : h = ExpectedHeaders(k)
            /\ \A l \in LoggedHeaders :
                  /\ DOMAIN l = {"Notion-Version", "Content-Type"}
                  /\ \A key \in DOMAIN l :
                        /\ l[key] = ExpectedHeaders(k)[key]
                        /\ l[key] # ExpectedHeaders(k)["Authorization"]
            /\ (op = "build_headers" \/ wire # <<>>) => LoggedHeaders # {}

C8_Witness ==
    /\ op = "query"
    /\ call.api_key = PyStr("")
    /\ NOTION_API_KEY = PyStr("env_key")
    /\ Len(wire) = 1
    /\ wire[1].headers["Authorization"] = "Bearer env_key"
    /\ Cardinality(LoggedHeaders) = 1

IsUnionOf(body, filter, sorter) ==
    /\ DOMAIN body = DOMAIN filter \cup DOMAIN sorter
    /\ \A k \in DOMAIN sorter : body[k] = sorter[k]
    /\ \A k \in DOMAIN filter \ DOMAIN sorter : body[k] = filter[k]

\* C10: query_notion_database keeps no state between calls: it changes
\* neither the filter and sorter mappings it is given nor the shared default
\* empty mappings, so that after any earlier calls the body a call sends is
\* the key-wise union of its own filter and sorter (the sorter's entry kept
\* on a shared key), and the empty body when both are left out.
C10_QueryKeepsNoState ==
    /\ defaults = [filter |-> EmptyDict, sorter |-> EmptyDict]
    /\ op = "query" =>
          /\ caller.filter = call.filter.obj
          /\ caller.sorter = call.sorter.obj
          /\ wire # <<>> =>
                /\ IsUnionOf(wire[1].json, call.filter.obj, call.sorter.obj)
                /\ (~call.filter.given /\ ~call.sorter.given)
                      => wire[1].json = EmptyDict

C10_Witness ==
    /\ op = "query"
    /\ call.filter = NotGiven
    /\ call.sorter = NotGiven
    /\ pc = "idle"
    /\ outcome.kind = "return"
    /\ wire[1].json = EmptyDict

====
